---- MODULE Spec2Model ----
(***************************************************************************)
(* Model of the Better Stack Terraform provider handlers:                  *)
(*   - the monitoring IP list data source (data_ip_list.go, ipListLookup)  *)
(*   - the outgoing webhook resource (create / read / update / delete,     *)
(*     validation, record mapping)                                         *)
(*   - the JSON-equivalence diff suppression of body_template              *)
(***************************************************************************)
EXTENDS Integers, Sequences, FiniteSets, TLC

----------------------------------------------------------------------------
(* Bounds of the model                                                     *)

MaxEntries == 2      \* members of the JSON object returned by the server
MaxIPs     == 1      \* addresses listed for one cluster
MaxFilter  == 1      \* entries of filter_clusters
MaxTokens  == 3      \* tokens of a body_template text

----------------------------------------------------------------------------
(* Generic helpers                                                         *)

SeqsUpTo(S, n) == UNION {[1..k -> S] : k \in 0..n}

Range(s) == {s[i] : i \in DOMAIN s}

\* Go pointers / interface values: the empty sequence is nil, <<v>> points to v
Nil == <<>>
Ptr(v) == <<v>>

----------------------------------------------------------------------------
(* IP list data source                                                     *)

VARIABLES
    ld,          \* the data source's ResourceData: id, filter_clusters, ips, all_clusters
    lkPc,        \* "start" before ipListLookup has run, "done" after it returned
    lkHttp,      \* what the server answers to GET /ips-by-cluster.json
    lkOrder,     \* the order in which the last lookup ranged over the map
    lkRequests,  \* GET /ips-by-cluster.json requests issued by the last lookup
    lkDiag       \* diagnostics returned by the last lookup ("" is nil)

lkVars == <<ld, lkPc, lkHttp, lkOrder, lkRequests, lkDiag>>

Clusters == {"eu", "us"}
FilterNames == Clusters \cup {"xx"}
IPs == {"ip1", "ip2"}
Statuses == {200, 201, 404, 500}

StatusOK == 200

\* A response body: unparsable text, or a JSON object given by its members in
\* textual order (a name may occur more than once in the text)
Bodies ==
    [valid : {FALSE}, entries : {<<>>}]
    \cup [valid : {TRUE},
          entries : SeqsUpTo([cluster : Clusters, ips : SeqsUpTo(IPs, MaxIPs)], MaxEntries)]

Exchanges ==
    [transportOk : {FALSE}, status : {0}, readOk : {FALSE}, body : {[valid |-> FALSE, entries |-> <<>>]}]
    \cup [transportOk : {TRUE}, status : Statuses, readOk : {FALSE}, body : {[valid |-> FALSE, entries |-> <<>>]}]
    \cup [transportOk : {TRUE}, status : Statuses, readOk : {TRUE}, body : Bodies]

\* json.Unmarshal into map[string][]string: a later member replaces an earlier
\* one of the same name
RECURSIVE Unmarshal(_)
Unmarshal(entries) ==
    IF entries = <<>> THEN <<>>
    ELSE LET n == Len(entries)
             rest == Unmarshal(SubSeq(entries, 1, n - 1))
             e == entries[n]
         IN [c \in (DOMAIN rest) \cup {e.cluster} |->
                IF c = e.cluster THEN e.ips ELSE rest[c]]

\* Orders in which `range ipData` may visit the keys
MapOrders(m) ==
    {o \in [1..Cardinality(DOMAIN m) -> DOMAIN m] :
        \A i, j \in DOMAIN o : i # j => o[i] # o[j]}

\* filterClusters := make(map[string]bool); filterClusters[c] = true
FilterSet(requestedClusters) == Range(requestedClusters)

\* Mutant: an empty filter selects nothing
RECURSIVE FilteredIPsNoEmptyCase(_, _, _)
FilteredIPsNoEmptyCase(ipData, order, filterClusters) ==
    IF order = <<>> THEN <<>>
    ELSE LET n == Len(order)
             cluster == order[n]
             before == FilteredIPsNoEmptyCase(ipData, SubSeq(order, 1, n - 1), filterClusters)
         IN IF cluster \in filterClusters
            THEN before \o ipData[cluster]
            ELSE before

RECURSIVE FilteredIPs(_, _, _)
FilteredIPs(ipData, order, filterClusters) ==
    IF order = <<>> THEN <<>>
    ELSE LET n == Len(order)
             cluster == order[n]
             before == FilteredIPs(ipData, SubSeq(order, 1, n - 1), filterClusters)
         IN IF Cardinality(filterClusters) = 0 \/ cluster \in filterClusters
            THEN before \o ipData[cluster]
            ELSE before

\* Mutant: the cluster name is recorded inside the filter branch
AllClustersFilteredOnly(ipData, order, filterClusters) ==
    SelectSeq(order, LAMBDA c : Cardinality(filterClusters) = 0 \/ c \in filterClusters)

\* allClusters = append(allClusters, cluster) on every iteration
AllClusters(ipData, order, filterClusters) == order

FreshData(filter) ==
    [id |-> "", filter_clusters |-> filter, ips |-> <<>>, all_clusters |-> <<>>]

\* Mutant: any 2xx status is accepted
LookupDiagAny2xx(x) ==
    IF ~x.transportOk THEN "transport"
    ELSE IF ~x.readOk THEN "read"
    ELSE IF x.status < 200 \/ x.status > 299 THEN "status"
    ELSE IF ~x.body.valid THEN "parse"
    ELSE ""

LookupDiag(x) ==
    IF ~x.transportOk THEN "transport"
    ELSE IF ~x.readOk THEN "read"
    ELSE IF x.status # StatusOK THEN "status"
    ELSE IF ~x.body.valid THEN "parse"
    ELSE ""

LookupRequests(x) == 1

ipListLookup(filter, x, order) ==
    /\ lkPc = "start"
    /\ lkPc' = "done"
    /\ UNCHANGED lkHttp
    /\ lkRequests' = LookupRequests(x)
    /\ lkDiag' = LookupDiag(x)
    /\ IF LookupDiag(x) # ""
       THEN /\ ld' = FreshData(filter)
            /\ lkOrder' = <<>>
       ELSE LET ipData == Unmarshal(x.body.entries)
            IN /\ lkOrder' = order
               /\ ld' = [id |-> "betterstack_ip_list",
                         filter_clusters |-> filter,
                         ips |-> FilteredIPs(ipData, order, FilterSet(filter)),
                         all_clusters |-> AllClusters(ipData, order, FilterSet(filter))]

LookupOk ==
    /\ LookupDiag(lkHttp) = ""
    /\ \E order \in MapOrders(Unmarshal(lkHttp.body.entries)) :
          ipListLookup(ld.filter_clusters, lkHttp, order)

LookupFail ==
    /\ LookupDiag(lkHttp) # ""
    /\ ipListLookup(ld.filter_clusters, lkHttp, <<>>)

NoExchange ==
    [transportOk |-> FALSE, status |-> 0, readOk |-> FALSE,
     body |-> [valid |-> FALSE, entries |-> <<>>]]

LkIdle ==
    /\ ld = FreshData(<<>>)
    /\ lkPc = "done"
    /\ lkHttp = NoExchange
    /\ lkOrder = <<>>
    /\ lkRequests = 0
    /\ lkDiag = ""

LkInit ==
    /\ ld \in {FreshData(f) : f \in SeqsUpTo(FilterNames, MaxFilter)}
    /\ lkPc = "start"
    /\ lkHttp \in Exchanges
    /\ lkOrder = <<>>
    /\ lkRequests = 0
    /\ lkDiag = ""

----------------------------------------------------------------------------
(* Outgoing webhook resource                                               *)

VARIABLES
    wd,        \* the resource's ResourceData (id = "" when no resource is in state)
    wcfg,      \* the configuration last handed to Create or Update
    wsrv,      \* the webhook stored by the remote API (Nil when there is none)
    wreq,      \* body of the last request sent (Nil when it had none)
    wresp,     \* attributes of the last response decoded (Nil when there were none)
    wop,       \* last handler run: "none", "create", "read", "update", "delete"
    werr,      \* whether the last handler returned error diagnostics
    wupdated   \* whether Update ran since the resource was created

webVars == <<wd, wcfg, wsrv, wreq, wresp, wop, werr, wupdated>>

Names == {"", "n1"}
URLs == {"u1", "u2"}
Teams == {"", "t1"}
TriggerTypes == {"incident_change", "on_call_change", "monitor_change"}
HTTPMethods == {"post", "get"}
AuthUsernames == {"usr"}
AuthPasswords == {"pw"}
BodyTemplates == {"{}"}
HeaderLists == {<<>>, <<[name |-> "h1", value |-> "v1"]>>}

incidentFields == <<"on_incident_started", "on_incident_acknowledged", "on_incident_resolved">>

\* customWebhookTemplateAttributes items of the schema (id is computed)
TemplateItems ==
    [id : {""}, http_method : HTTPMethods, auth_username : AuthUsernames,
     auth_password : AuthPasswords, headers_template : HeaderLists,
     body_template : BodyTemplates]

\* What the user may write: an incident flag is absent (Nil) or given a value
RawConfigs ==
    [name : Names, url : URLs, trigger_type : TriggerTypes,
     on_incident_started : {Nil, Ptr(FALSE), Ptr(TRUE)},
     on_incident_acknowledged : {Nil, Ptr(FALSE), Ptr(TRUE)},
     on_incident_resolved : {Nil, Ptr(FALSE), Ptr(TRUE)}]

\* d.Get of a boolean field with Default false
GetBool(raw, field) == IF raw[field] = Nil THEN FALSE ELSE raw[field][1]

\* d.GetOk: ok is false for the zero value
GetOkBool(raw, field) == GetBool(raw, field) # FALSE

\* Mutant: the trigger type is not consulted for the last flag
RECURSIVE validateFromSkipLast(_, _)
validateFromSkipLast(raw, i) ==
    IF i > Len(incidentFields) THEN ""
    ELSE IF /\ GetOkBool(raw, incidentFields[i]) /\ GetBool(raw, incidentFields[i])
            /\ raw.trigger_type # "incident_change"
            /\ i < Len(incidentFields)
         THEN incidentFields[i]
         ELSE validateFromSkipLast(raw, i + 1)

\* The loop of validateOutgoingWebhook from field i on: the field the error
\* names, or "" for a nil error
RECURSIVE validateFrom(_, _)
validateFrom(raw, i) ==
    IF i > Len(incidentFields) THEN ""
    ELSE IF /\ GetOkBool(raw, incidentFields[i]) /\ GetBool(raw, incidentFields[i])
            /\ raw.trigger_type # "incident_change"
         THEN incidentFields[i]
         ELSE validateFrom(raw, i + 1)

validateOutgoingWebhook(raw) == validateFrom(raw, 1)

\* The planned record of a configuration that passed validation
Planned(raw, team, tpl) ==
    [id |-> "", name |-> raw.name, url |-> raw.url, trigger_type |-> raw.trigger_type,
     on_incident_started |-> GetBool(raw, "on_incident_started"),
     on_incident_acknowledged |-> GetBool(raw, "on_incident_acknowledged"),
     on_incident_resolved |-> GetBool(raw, "on_incident_resolved"),
     custom_webhook_template_attributes |-> tpl,
     team_name |-> team]

TemplateBlocks == {<<>>} \cup {<<t>> : t \in TemplateItems}

ValidConfigs ==
    {Planned(raw, team, tpl) :
        raw \in {r \in RawConfigs : validateOutgoingWebhook(r) = ""},
        team \in Teams, tpl \in TemplateBlocks}

NoRecord ==
    [id |-> "", name |-> "", url |-> "", trigger_type |-> "",
     on_incident_started |-> FALSE, on_incident_acknowledged |-> FALSE,
     on_incident_resolved |-> FALSE,
     custom_webhook_template_attributes |-> <<>>, team_name |-> ""]

\* outgoingWebhook with every pointer nil
EmptyWebhook ==
    [id |-> Nil, name |-> Nil, url |-> Nil, trigger_type |-> Nil,
     on_incident_started |-> Nil, on_incident_acknowledged |-> Nil,
     on_incident_resolved |-> Nil,
     custom_webhook_template_attributes |-> Nil, team_name |-> Nil]

\* Mutant: the incident fields are always part of the mapping
outgoingWebhookRefUngated(triggerType) ==
    <<"id", "name", "url", "trigger_type">> \o incidentFields

outgoingWebhookRef(triggerType) ==
    <<"id", "name", "url", "trigger_type">>
    \o (IF triggerType = "incident_change" THEN incidentFields ELSE <<>>)

\* load(d, key, receiver): the receiver points to the record's value; the
\* computed id has no value before the resource exists
load(d, k) == IF k = "id" /\ d[k] = "" THEN Nil ELSE Ptr(d[k])

\* Mutant: body_template is left out of the request struct
templateOfNoBody(d) ==
    IF Len(d.custom_webhook_template_attributes) > 0
    THEN LET attrs == d.custom_webhook_template_attributes[1]
         IN Ptr([id |-> Nil,
                 http_method |-> Ptr(attrs.http_method),
                 auth_username |-> Ptr(attrs.auth_username),
                 auth_password |-> Ptr(attrs.auth_password),
                 headers_template |-> attrs.headers_template,
                 body_template |-> Nil])
    ELSE Nil

\* The template block of the record as a request struct
templateOf(d) ==
    IF Len(d.custom_webhook_template_attributes) > 0
    THEN LET attrs == d.custom_webhook_template_attributes[1]
         IN Ptr([id |-> Nil,
                 http_method |-> Ptr(attrs.http_method),
                 auth_username |-> Ptr(attrs.auth_username),
                 auth_password |-> Ptr(attrs.auth_password),
                 headers_template |-> attrs.headers_template,
                 body_template |-> Ptr(attrs.body_template)])
    ELSE Nil

RECURSIVE loadAll(_, _, _, _)
loadAll(in, d, refs, changed) ==
    IF refs = <<>> THEN in
    ELSE LET k == Head(refs)
             next == IF k \in changed THEN [in EXCEPT ![k] = load(d, k)] ELSE in
         IN loadAll(next, d, Tail(refs), changed)

AllKeys == DOMAIN EmptyWebhook

\* The request body of outgoingWebhookCreate
createPayload(d) ==
    LET basic == loadAll(EmptyWebhook, d, outgoingWebhookRef(d.trigger_type), AllKeys)
        team == [basic EXCEPT !.team_name = load(d, "team_name")]
    IN [team EXCEPT !.custom_webhook_template_attributes = templateOf(d)]

\* d.HasChange(key) between the prior state and the planned record
HasChange(old, new, k) == old[k] # new[k]

ChangedKeys(old, new) == {k \in AllKeys : HasChange(old, new, k)}

\* Mutant: every mapped field is sent, changed or not
updatePayloadAll(old, new) ==
    LET basic == loadAll(EmptyWebhook, new, outgoingWebhookRef(new.trigger_type), AllKeys)
    IN [basic EXCEPT !.custom_webhook_template_attributes = templateOf(new)]

\* The request body of outgoingWebhookUpdate
updatePayload(old, new) ==
    LET basic == loadAll(EmptyWebhook, new, outgoingWebhookRef(new.trigger_type),
                         ChangedKeys(old, new))
    IN IF HasChange(old, new, "custom_webhook_template_attributes")
       THEN [basic EXCEPT !.custom_webhook_template_attributes = templateOf(new)]
       ELSE basic

Deref(p, zero) == IF p = Nil THEN zero ELSE p[1]

ZeroOf(k) == IF k \in Range(incidentFields) THEN FALSE ELSE ""

\* d.Set(key, value): the "id" attribute of the state is the resource id that
\* SetId wrote, whatever is set under that key
Set(d, k, v) == IF k = "id" THEN d ELSE [d EXCEPT ![k] = v]

RECURSIVE copyBasic(_, _, _)
copyBasic(d, in, refs) ==
    IF refs = <<>> THEN d
    ELSE LET k == Head(refs)
         IN copyBasic(Set(d, k, Deref(in[k], ZeroOf(k))), in, Tail(refs))

templateBlock(t) ==
    <<[id |-> Deref(t.id, ""),
       http_method |-> Deref(t.http_method, ""),
       auth_username |-> Deref(t.auth_username, ""),
       auth_password |-> Deref(t.auth_password, ""),
       body_template |-> Deref(t.body_template, ""),
       headers_template |-> IF Len(t.headers_template) > 0 THEN t.headers_template ELSE <<>>]>>

\* Mutant: the template block is not written back
outgoingWebhookCopyAttrsNoTemplate(d, in) ==
    copyBasic(d, in, outgoingWebhookRef(Deref(in.trigger_type, "")))

outgoingWebhookCopyAttrs(d, in) ==
    LET triggerType == Deref(in.trigger_type, "")
        basic == copyBasic(d, in, outgoingWebhookRef(triggerType))
    IN IF in.custom_webhook_template_attributes # Nil
       THEN Set(basic, "custom_webhook_template_attributes",
                templateBlock(in.custom_webhook_template_attributes[1]))
       ELSE basic

SetId(d, id) == [d EXCEPT !.id = id]

\* The record outgoingWebhookCreate leaves after a successful POST
createResult(d, id, attrs) == outgoingWebhookCopyAttrs(SetId(d, id), attrs)

\* The record outgoingWebhookRead leaves after a 200
readResult(d, attrs) == outgoingWebhookCopyAttrs(d, attrs)

\* The record after outgoingWebhookUpdate: the planned values, nothing copied
updateResult(old, new, attrs) == SetId(new, old.id)

----------------------------------------------------------------------------
(* The remote API                                                          *)

ServerId == "wh1"

\* POST stores the attributes it was sent
serverCreate(payload) == Ptr(payload)

MergeTemplate(stored, sent) ==
    IF sent = Nil THEN stored
    ELSE IF stored = Nil THEN sent
    ELSE LET s == stored[1]
             n == sent[1]
         IN Ptr([id |-> IF n.id # Nil THEN n.id ELSE s.id,
                 http_method |-> IF n.http_method # Nil THEN n.http_method ELSE s.http_method,
                 auth_username |-> IF n.auth_username # Nil THEN n.auth_username ELSE s.auth_username,
                 auth_password |-> IF n.auth_password # Nil THEN n.auth_password ELSE s.auth_password,
                 headers_template |-> IF n.headers_template # <<>> THEN n.headers_template
                                      ELSE s.headers_template,
                 body_template |-> IF n.body_template # Nil THEN n.body_template ELSE s.body_template])

\* PATCH applies exactly the fields it is sent and keeps the others
serverPatch(stored, payload) ==
    Ptr([k \in AllKeys |->
            IF k = "custom_webhook_template_attributes"
            THEN MergeTemplate(stored[1][k], payload[k])
            ELSE IF payload[k] # Nil THEN payload[k] ELSE stored[1][k]])

----------------------------------------------------------------------------
(* Handlers: one HTTP exchange each, the response decoded into `out`       *)

outgoingWebhookCreate(c, attrs) ==
    /\ wd.id = ""
    /\ wcfg' = c
    /\ wreq' = Ptr(createPayload(c))
    /\ wresp' = Ptr(attrs)
    /\ wd' = createResult(c, ServerId, attrs)
    /\ wop' = "create"
    /\ werr' = FALSE
    /\ wupdated' = FALSE

\* resourceCreate returns an error: no id is set, nothing is copied
outgoingWebhookCreateFail(c) ==
    /\ wd.id = ""
    /\ wcfg' = NoRecord
    /\ wreq' = Ptr(createPayload(c))
    /\ wresp' = Nil
    /\ wd' = NoRecord
    /\ wop' = "create"
    /\ werr' = TRUE
    /\ wupdated' = FALSE

outgoingWebhookRead(attrs) ==
    /\ wd.id # ""
    /\ wreq' = Nil
    /\ wresp' = Ptr(attrs)
    /\ wd' = readResult(wd, attrs)
    /\ wop' = "read"
    /\ werr' = FALSE
    /\ UNCHANGED <<wcfg, wupdated>>

\* resourceRead reports that the webhook is gone: the id is cleared
outgoingWebhookReadGone ==
    /\ wd.id # ""
    /\ wreq' = Nil
    /\ wresp' = Nil
    /\ wd' = NoRecord
    /\ wcfg' = NoRecord
    /\ wop' = "read"
    /\ werr' = FALSE
    /\ wupdated' = FALSE

\* Configurations an update may plan for the record: a trigger_type change
\* forces a new resource, and a team_name change is suppressed once the id is set
UpdateConfigs(old, configs) ==
    {c \in configs :
        /\ c.trigger_type = old.trigger_type
        /\ c.team_name = old.team_name
        /\ c # [old EXCEPT !.id = ""]}

\* The planned record keeps the id of the state
PlannedUpdate(old, c) == SetId(c, old.id)

outgoingWebhookUpdate(c, attrs) ==
    /\ wd.id # ""
    /\ wcfg' = c
    /\ wreq' = Ptr(updatePayload(wd, PlannedUpdate(wd, c)))
    /\ wresp' = Ptr(attrs)
    /\ wd' = updateResult(wd, PlannedUpdate(wd, c), attrs)
    /\ wop' = "update"
    /\ werr' = FALSE
    /\ wupdated' = TRUE

outgoingWebhookDelete ==
    /\ wd.id # ""
    /\ wreq' = Nil
    /\ wresp' = Nil
    /\ wd' = NoRecord
    /\ wcfg' = NoRecord
    /\ wop' = "delete"
    /\ werr' = FALSE
    /\ wupdated' = FALSE

----------------------------------------------------------------------------
(* The handlers against an API that stores and returns what it was sent    *)

Create ==
    \E c \in ValidConfigs :
        /\ outgoingWebhookCreate(c, createPayload(c))
        /\ wsrv' = serverCreate(createPayload(c))

CreateFail ==
    /\ \E c \in ValidConfigs : outgoingWebhookCreateFail(c)
    /\ UNCHANGED wsrv

Read ==
    /\ wsrv # Nil
    /\ outgoingWebhookRead(wsrv[1])
    /\ UNCHANGED wsrv

ReadGone ==
    /\ wsrv = Nil
    /\ outgoingWebhookReadGone
    /\ UNCHANGED wsrv

\* An update is planned against the refreshed state
Update ==
    /\ wsrv # Nil
    /\ wop \in {"create", "read"}
    /\ \E c \in UpdateConfigs(wd, ValidConfigs) :
          LET stored == serverPatch(wsrv, updatePayload(wd, PlannedUpdate(wd, c)))
          IN /\ outgoingWebhookUpdate(c, stored[1])
             /\ wsrv' = stored

Delete ==
    /\ outgoingWebhookDelete
    /\ wsrv' = Nil

\* The webhook is removed on the remote side, outside the provider
RemoteDelete ==
    /\ wsrv # Nil
    /\ wd.id # ""
    /\ wsrv' = Nil
    /\ UNCHANGED <<wd, wcfg, wreq, wresp, wop, werr, wupdated>>

WebIdle ==
    /\ wd = NoRecord
    /\ wcfg = NoRecord
    /\ wsrv = Nil
    /\ wreq = Nil
    /\ wresp = Nil
    /\ wop = "none"
    /\ werr = FALSE
    /\ wupdated = FALSE

----------------------------------------------------------------------------
(* The handlers against an API whose responses are arbitrary               *)

ResponseTemplates ==
    {Nil,
     Ptr([id |-> Ptr("t9"), http_method |-> Ptr("get"), auth_username |-> Ptr("usr"),
          auth_password |-> Ptr("pw"),
          headers_template |-> <<[name |-> "h1", value |-> "v1"]>>,
          body_template |-> Ptr("{}")]),
     Ptr([id |-> Nil, http_method |-> Ptr("post"), auth_username |-> Nil,
          auth_password |-> Nil, headers_template |-> <<>>, body_template |-> Nil])}

Responses ==
    [id : {Nil}, name : {Nil, Ptr("n2")}, url : {Ptr("u2")},
     trigger_type : {Nil, Ptr("incident_change"), Ptr("on_call_change")},
     on_incident_started : {Nil, Ptr(TRUE)},
     on_incident_acknowledged : {Nil, Ptr(FALSE)},
     on_incident_resolved : {Nil},
     custom_webhook_template_attributes : ResponseTemplates,
     team_name : {Nil}]

SampleConfigs ==
    {c \in ValidConfigs :
        /\ c.name = "n1" /\ c.url = "u1" /\ c.team_name = "t1"
        /\ \/ c.custom_webhook_template_attributes = <<>>
           \/ /\ c.custom_webhook_template_attributes[1].http_method = "post"
              /\ c.custom_webhook_template_attributes[1].headers_template # <<>>}

CreateR ==
    /\ wop = "none"
    /\ \E c \in SampleConfigs : \E attrs \in Responses : outgoingWebhookCreate(c, attrs)
    /\ UNCHANGED wsrv

ReadR ==
    /\ wop = "create"
    /\ \E attrs \in Responses : outgoingWebhookRead(attrs)
    /\ UNCHANGED wsrv

UpdateR ==
    /\ wop = "create"
    /\ \E c \in UpdateConfigs(wd, SampleConfigs) : \E attrs \in Responses :
          outgoingWebhookUpdate(c, attrs)
    /\ UNCHANGED wsrv

----------------------------------------------------------------------------
(* Plan-time validation                                                    *)

VARIABLES
    vraw,    \* the configuration being planned
    vpc,     \* "start" before validateOutgoingWebhook has run, "done" after
    verr     \* the field its error names ("" for a nil error)

planVars == <<vraw, vpc, verr>>

PlanIdle ==
    /\ vraw = [name |-> "", url |-> "u1", trigger_type |-> "incident_change",
               on_incident_started |-> Nil, on_incident_acknowledged |-> Nil,
               on_incident_resolved |-> Nil]
    /\ vpc = "done"
    /\ verr = ""

PlanInit ==
    /\ vraw \in RawConfigs
    /\ vpc = "start"
    /\ verr = ""

Validate ==
    /\ vpc = "start"
    /\ vpc' = "done"
    /\ verr' = validateOutgoingWebhook(vraw)
    /\ UNCHANGED vraw

ValidateAccept == Validate /\ verr' = ""
ValidateReject == Validate /\ verr' # ""

----------------------------------------------------------------------------
(* Diff suppression of body_template                                       *)

VARIABLES
    jold,    \* body_template in the state
    jnew,    \* body_template in the configuration
    jpc,     \* "start" before the diff of the field is computed, "done" after
    jdiff    \* whether the plan shows a difference for the field

jsonVars == <<jold, jnew, jpc, jdiff>>

\* A body_template text is a sequence of tokens: insignificant whitespace, a
\* member "name": value of the object, or a token that is not JSON
Members == {[k |-> "a", v |-> 1], [k |-> "a", v |-> 2], [k |-> "b", v |-> 1]}
Whitespace == [k |-> " ", v |-> 0]
Garbage == [k |-> "!", v |-> 0]
Tokens == Members \cup {Whitespace, Garbage}
Texts == SeqsUpTo(Tokens, MaxTokens)

ParseOk(text) == \A i \in DOMAIN text : text[i] # Garbage

\* Decoding into a map: whitespace is skipped, a later member replaces an
\* earlier one of the same name
RECURSIVE ParseJSON(_)
ParseJSON(text) ==
    IF text = <<>> THEN <<>>
    ELSE LET n == Len(text)
             rest == ParseJSON(SubSeq(text, 1, n - 1))
             t == text[n]
         IN IF t = Whitespace THEN rest
            ELSE [k \in (DOMAIN rest) \cup {t.k} |-> IF k = t.k THEN t.v ELSE rest[k]]

\* Mutant: the texts are compared as written
suppressEquivalentJSONDiffsBytes(old, new) == old = new

suppressEquivalentJSONDiffs(old, new) ==
    /\ ParseOk(old)
    /\ ParseOk(new)
    /\ ParseJSON(old) = ParseJSON(new)

\* Mutant: the field has no DiffSuppressFunc
bodyTemplateDiffSuppressNone(old, new) == FALSE

\* DiffSuppressFunc of body_template
bodyTemplateDiffSuppress(old, new) == suppressEquivalentJSONDiffs(old, new)

bodyTemplateDiff(old, new) == old # new /\ ~bodyTemplateDiffSuppress(old, new)

JsonIdle ==
    /\ jold = <<>>
    /\ jnew = <<>>
    /\ jpc = "done"
    /\ jdiff = FALSE

JsonInit ==
    /\ jold \in Texts
    /\ jnew \in Texts
    /\ jpc = "start"
    /\ jdiff = FALSE

DiffBody ==
    /\ jpc = "start"
    /\ jpc' = "done"
    /\ jdiff' = bodyTemplateDiff(jold, jnew)
    /\ UNCHANGED <<jold, jnew>>

DiffShown == DiffBody /\ jdiff'
DiffSuppressed == DiffBody /\ ~jdiff'

----------------------------------------------------------------------------
(* Specifications                                                          *)

vars == <<lkVars, webVars, planVars, jsonVars>>

InitWebhook == WebIdle /\ LkIdle /\ PlanIdle /\ JsonIdle
NextWebhook ==
    \/ (Create /\ UNCHANGED <<lkVars, planVars, jsonVars>>)
    \/ (CreateFail /\ UNCHANGED <<lkVars, planVars, jsonVars>>)
    \/ (Read /\ UNCHANGED <<lkVars, planVars, jsonVars>>)
    \/ (ReadGone /\ UNCHANGED <<lkVars, planVars, jsonVars>>)
    \/ (Update /\ UNCHANGED <<lkVars, planVars, jsonVars>>)
    \/ (Delete /\ UNCHANGED <<lkVars, planVars, jsonVars>>)
    \/ (RemoteDelete /\ UNCHANGED <<lkVars, planVars, jsonVars>>)
SpecWebhook == InitWebhook /\ [][NextWebhook]_vars

InitResp == WebIdle /\ LkIdle /\ PlanIdle /\ JsonIdle
NextResp ==
    \/ (CreateR /\ UNCHANGED <<lkVars, planVars, jsonVars>>)
    \/ (ReadR /\ UNCHANGED <<lkVars, planVars, jsonVars>>)
    \/ (UpdateR /\ UNCHANGED <<lkVars, planVars, jsonVars>>)
SpecResp == InitResp /\ [][NextResp]_vars

InitPlan == PlanInit /\ WebIdle /\ LkIdle /\ JsonIdle
NextPlan ==
    \/ (ValidateAccept /\ UNCHANGED <<lkVars, webVars, jsonVars>>)
    \/ (ValidateReject /\ UNCHANGED <<lkVars, webVars, jsonVars>>)
SpecPlan == InitPlan /\ [][NextPlan]_vars

InitLookup == LkInit /\ WebIdle /\ PlanIdle /\ JsonIdle
NextLookup ==
    \/ (LookupOk /\ UNCHANGED <<webVars, planVars, jsonVars>>)
    \/ (LookupFail /\ UNCHANGED <<webVars, planVars, jsonVars>>)
SpecLookup == InitLookup /\ [][NextLookup]_vars

InitJson == JsonInit /\ WebIdle /\ LkIdle /\ PlanIdle
NextJson ==
    \/ (DiffShown /\ UNCHANGED <<lkVars, webVars, planVars>>)
    \/ (DiffSuppressed /\ UNCHANGED <<lkVars, webVars, planVars>>)
SpecJson == InitJson /\ [][NextJson]_vars

----------------------------------------------------------------------------
(* Properties of the IP list data source                                   *)

Count(s, x) == Cardinality({i \in DOMAIN s : s[i] = x})

RECURSIVE SumOver(_, _, _)
SumOver(S, m, x) ==
    IF S = {} THEN 0
    ELSE LET c == CHOOSE c \in S : TRUE
         IN Count(m[c], x) + SumOver(S \ {c}, m, x)

\* The map the server returned, as the lookup decoded it
ServedMap == Unmarshal(lkHttp.body.entries)

\* The clusters the caller asked for: all of them for an empty filter
SelectedClusters ==
    IF ld.filter_clusters = <<>> THEN DOMAIN ServedMap
    ELSE {c \in DOMAIN ServedMap : \E i \in DOMAIN ld.filter_clusters : ld.filter_clusters[i] = c}

LookupSucceeded == lkPc = "done" /\ lkDiag = ""

\* C3: after a successful lookup ips holds the addresses of every cluster when
\* filter_clusters is empty, and the addresses of exactly the clusters named in
\* filter_clusters otherwise (each address as often as those clusters list it).
C3_FilteredIps ==
    LookupSucceeded =>
        /\ \A ip \in IPs : Count(ld.ips, ip) = SumOver(SelectedClusters, ServedMap, ip)
        /\ Range(ld.ips) \subseteq IPs

C3_Witness ==
    /\ LookupSucceeded
    /\ ld.filter_clusters # <<>>
    /\ \E c \in DOMAIN ServedMap : c \in SelectedClusters /\ ServedMap[c] # <<>>
    /\ \E c \in DOMAIN ServedMap : c \notin SelectedClusters /\ ServedMap[c] # <<>>
    /\ ld.ips # <<>>

\* C4: after a successful lookup all_clusters lists every cluster name of the
\* response exactly once and nothing else, whatever filter_clusters is.
C4_AllClusters ==
    LookupSucceeded =>
        LET names == {lkHttp.body.entries[i].cluster : i \in DOMAIN lkHttp.body.entries}
        IN /\ \A c \in names : Count(ld.all_clusters, c) = 1
           /\ Range(ld.all_clusters) \subseteq names

C4_Witness ==
    /\ LookupSucceeded
    /\ Cardinality(DOMAIN ServedMap) = 2
    /\ ld.filter_clusters # <<>>
    /\ SelectedClusters = {}
    /\ Len(ld.all_clusters) = 2

Is2xx(status) == status >= 200 /\ status <= 299

\* C5 (as stated): exactly one GET is issued, and the lookup fails iff the
\* transport fails, the body cannot be read or parsed, or the status is non-2xx.
C5_ErrorIffNon2xx ==
    lkPc = "done" =>
        /\ lkRequests = 1
        /\ (lkDiag # "") <=>
              (\/ ~lkHttp.transportOk
               \/ ~lkHttp.readOk
               \/ ~lkHttp.body.valid
               \/ ~Is2xx(lkHttp.status))

\* C5 (amended): exactly one GET is issued, never retried, and the lookup fails
\* iff the transport fails, the body cannot be read or parsed, or the status is
\* anything other than 200.
C5_ErrorIffNot200 ==
    lkPc = "done" =>
        /\ lkRequests = 1
        /\ (lkDiag # "") <=>
              (\/ ~lkHttp.transportOk
               \/ ~lkHttp.readOk
               \/ ~lkHttp.body.valid
               \/ lkHttp.status # 200)
        /\ (lkDiag # "" => ld.id = "" /\ ld.ips = <<>> /\ ld.all_clusters = <<>>)

C5_Witness ==
    /\ lkPc = "done"
    /\ lkDiag = "status"
    /\ lkHttp.status = 201
    /\ lkHttp.body.valid
    /\ lkRequests = 1

----------------------------------------------------------------------------
(* Properties of the outgoing webhook resource                             *)

\* The record without its computed ids
ConfigOf(d) ==
    [d EXCEPT !.id = "",
              !.custom_webhook_template_attributes =
                  IF @ = <<>> THEN <<>> ELSE <<[@[1] EXCEPT !.id = ""]>>]

Flags(d) == <<d.on_incident_started, d.on_incident_acknowledged, d.on_incident_resolved>>

\* C1: create followed by read, against an API that stores and returns what it
\* was sent, leaves a record equal to the configuration that was created.
C1_CreateReadRoundTrip ==
    (wop \in {"create", "read"} /\ ~werr /\ ~wupdated /\ wd.id # "") =>
        ConfigOf(wd) = wcfg

C1_Witness ==
    /\ wop = "read" /\ ~werr /\ ~wupdated /\ wd.id # ""
    /\ wcfg.trigger_type = "on_call_change"
    /\ wcfg.custom_webhook_template_attributes # <<>>
    /\ wcfg.custom_webhook_template_attributes[1].headers_template # <<>>
    /\ wcfg.name = "n1"
    /\ ConfigOf(wd) = wcfg

\* C2 (as stated): validation fails whenever trigger_type is not incident_change
\* and an incident flag is set in the configuration, and passes for every
\* configuration with trigger_type = incident_change.
C2_RejectsAnySetFlag ==
    vpc = "done" =>
        /\ (/\ vraw.trigger_type # "incident_change"
            /\ \E i \in DOMAIN incidentFields : vraw[incidentFields[i]] # Nil)
           => verr # ""
        /\ vraw.trigger_type = "incident_change" => verr = ""

\* C2 (amended): validation fails whenever trigger_type is not incident_change
\* and an incident flag is set to true, and passes for every configuration with
\* trigger_type = incident_change.
C2_RejectsTrueFlag ==
    vpc = "done" =>
        /\ (/\ vraw.trigger_type # "incident_change"
            /\ \E i \in DOMAIN incidentFields : vraw[incidentFields[i]] = Ptr(TRUE))
           => verr # ""
        /\ vraw.trigger_type = "incident_change" => verr = ""

C2_Witness ==
    /\ vpc = "done"
    /\ vraw.trigger_type = "monitor_change"
    /\ vraw.on_incident_started = Ptr(FALSE)
    /\ vraw.on_incident_resolved = Ptr(TRUE)
    /\ verr = "on_incident_resolved"

CopiedKeys ==
    {"name", "url", "trigger_type", "on_incident_started", "on_incident_acknowledged",
     "on_incident_resolved"}

\* The value the record holds for a response's template
RecordTemplate(t) ==
    [id |-> Deref(t.id, ""), http_method |-> Deref(t.http_method, ""),
     auth_username |-> Deref(t.auth_username, ""),
     auth_password |-> Deref(t.auth_password, ""),
     headers_template |-> t.headers_template,
     body_template |-> Deref(t.body_template, "")]

\* C6 (as stated): after a successful create, read or update every attribute
\* present in the response has been copied into the record.
C6_ResponseCopiedBack ==
    (wop \in {"create", "read", "update"} /\ ~werr /\ wresp # Nil) =>
        /\ \A k \in CopiedKeys : wresp[1][k] # Nil => wd[k] = wresp[1][k][1]
        /\ wresp[1].custom_webhook_template_attributes # Nil =>
              wd.custom_webhook_template_attributes =
                  <<RecordTemplate(wresp[1].custom_webhook_template_attributes[1])>>

\* C6 (amended): after a successful create or read, name, url and trigger_type
\* hold the response's values (the zero value for an absent one), the three
\* incident flags hold the response's values when the response's trigger_type
\* is incident_change, and the template block holds the response's template
\* when the response has one; after a successful update the record holds the
\* planned configuration and nothing of the response.
C6_CopiedBackOnCreateAndRead ==
    (~werr /\ wresp # Nil) =>
        /\ wop \in {"create", "read"} =>
              /\ \A k \in {"name", "url", "trigger_type"} :
                    wd[k] = Deref(wresp[1][k], "")
              /\ wresp[1].trigger_type = Ptr("incident_change") =>
                    \A i \in DOMAIN incidentFields :
                        wd[incidentFields[i]] = Deref(wresp[1][incidentFields[i]], FALSE)
              /\ wresp[1].custom_webhook_template_attributes # Nil =>
                    wd.custom_webhook_template_attributes =
                        <<RecordTemplate(wresp[1].custom_webhook_template_attributes[1])>>
        /\ wop = "update" => wd = SetId(wcfg, ServerId)

C6_Witness ==
    /\ wop = "read" /\ ~werr /\ wresp # Nil
    /\ wresp[1].name = Ptr("n2")
    /\ wresp[1].trigger_type = Ptr("incident_change")
    /\ wresp[1].on_incident_started = Ptr(TRUE)
    /\ wresp[1].custom_webhook_template_attributes # Nil
    /\ wresp[1].custom_webhook_template_attributes[1].id = Ptr("t9")
    /\ wcfg.trigger_type = "monitor_change"
    /\ wd.on_incident_started
    /\ wd.name = "n2"

FlagInPayload ==
    /\ wreq # Nil
    /\ \E i \in DOMAIN incidentFields : wreq[1][incidentFields[i]] # Nil

\* The record as the handler of the step found it
RecordBefore == IF wop' = "create" THEN wcfg' ELSE wd

\* C8: the request built by create or update carries an incident flag only if
\* the record's trigger_type is incident_change, and copying a response whose
\* trigger_type is absent or not incident_change leaves the three flags of the
\* record as they were.
C8_IncidentFlagsGated ==
    [][/\ (wop' \in {"create", "update"} /\ FlagInPayload') =>
              wcfg'.trigger_type = "incident_change"
       /\ (/\ wop' \in {"create", "read"} /\ ~werr' /\ wresp' # Nil
           /\ wresp'[1].trigger_type # Ptr("incident_change"))
          => Flags(wd') = Flags(RecordBefore)]_vars

C8_Witness ==
    /\ wop = "read" /\ ~werr /\ wresp # Nil
    /\ wresp[1].trigger_type = Ptr("on_call_change")
    /\ wresp[1].on_incident_started = Ptr(TRUE)
    /\ wresp[1].on_incident_acknowledged = Ptr(FALSE)
    /\ wd.trigger_type = "on_call_change"
    /\ ~wd.on_incident_started
    /\ wd.on_incident_acknowledged

UpdateStep == wop \in {"create", "read"} /\ wop' = "update" /\ ~werr'

\* C9: the PATCH body of an update holds a field only if its value differs
\* between the prior state and the new configuration, and never team_name.
C9_PatchOnlyChanged ==
    [][UpdateStep =>
          /\ wreq' # Nil
          /\ \A k \in CopiedKeys \cup {"custom_webhook_template_attributes"} :
                wreq'[1][k] # Nil => ConfigOf(wd)[k] # wcfg'[k]
          /\ wreq'[1].team_name = Nil
          /\ wreq'[1].id = Nil]_vars

C9_Witness ==
    /\ wop = "update" /\ ~werr /\ wreq # Nil
    /\ wcfg.team_name = "t1"
    /\ wreq[1].name = Ptr("n1")
    /\ wreq[1].url = Nil
    /\ wreq[1].on_incident_resolved = Ptr(FALSE)
    /\ wreq[1].on_incident_started = Nil
    /\ wreq[1].custom_webhook_template_attributes # Nil

\* C10: after any updates followed by a read, the record equals the latest
\* configuration.
C10_UpdatesConverge ==
    (wop = "read" /\ ~werr /\ wd.id # "" /\ wupdated) => ConfigOf(wd) = wcfg

----------------------------------------------------------------------------
(* Properties of the body_template diff                                    *)

Strip(text) == SelectSeq(text, LAMBDA t : t # Whitespace)

\* The members of a text, each with the number of times it is written
SameMembers(a, b) ==
    \A m \in Members : Count(Strip(a), m) = Count(Strip(b), m)

UniqueNames(text) ==
    \A i, j \in DOMAIN Strip(text) : Strip(text)[i].k = Strip(text)[j].k => i = j

\* The document a text denotes: the members that are the last of their name
Denotes(text) ==
    {text[i] : i \in {j \in DOMAIN text :
                        /\ text[j] \in Members
                        /\ \A l \in DOMAIN text : l > j => text[l].k # text[j].k}}

\* C7: two body_template values that are both valid JSON and differ only in
\* the order of the keys or in whitespace show no diff, and two that denote
\* different documents show one.
C7_JsonEquivalentNoDiff ==
    (jpc = "done" /\ ParseOk(jold) /\ ParseOk(jnew)) =>
        /\ (UniqueNames(jold) /\ UniqueNames(jnew) /\ SameMembers(jold, jnew)) => ~jdiff
        /\ Denotes(jold) # Denotes(jnew) => jdiff

C7_Witness ==
    /\ jpc = "done"
    /\ jold = <<[k |-> "a", v |-> 1], [k |-> "b", v |-> 1]>>
    /\ jnew = <<[k |-> "b", v |-> 1], Whitespace, [k |-> "a", v |-> 1]>>
    /\ ~jdiff

====
